---- MODULE Spec2Model ----
(***************************************************************************)
(* Model of the ink! contract `wishlist` (src/lib.rs): a registry of       *)
(* crowdfunding campaigns ("wishes") held in a StorageVec of optional      *)
(* items, with the messages add_wishlist_item, fund_wish,                  *)
(* split_raised_wish, claim_wish and get_wishlist_item.                    *)
(*                                                                         *)
(* Every message is one atomic action.  A message that panics (a failed    *)
(* assert!, an unwrap of None, a U256 overflow, a division by zero) traps  *)
(* the contract call: the transaction reverts, so storage is unchanged and *)
(* no transfer leaves the contract; its result is recorded as "Panic".     *)
(* The variable `last` records the last call and what it returned and      *)
(* requested, the way a caller of the contract observes it.                *)
(***************************************************************************)
EXTENDS Integers, Sequences, FiniteSets, TLC

----------------------------------------------------------------------------
(* Bounds of the model *)

\* the value the callers can attach in total (the token supply): the worth of
\* all active wishes never exceeds it
MaxSupply == 2
\* the block timestamp runs from 0 to MaxTime
MaxTime == 1
\* the depth of the calls of the contract that are nested in one another when
\* the recipient of a transfer calls back
MaxDepth == 2

(* Widths of the program's integers, scaled down *)

\* u32::MAX (next_item_id and the index of items), scaled to 2 bits so that
\* the overflow of next_item_id.checked_add(1) is reachable
U32_MAX == 3
\* U256::MAX (target, raised, amounts), scaled to 10 bits
U256_MAX == 1023

----------------------------------------------------------------------------
(* Inputs *)

Accounts == {"alice", "bob", "charlie"}
Descriptions == {"wish"}
\* targets: zero, below 10 (ten percent floors to 0), 19 (ten percent floors
\* to 1), and the largest U256 (target * 10 overflows)
Targets == {0, 1, 19, U256_MAX}
EndDates == {1}
Values == 0..MaxSupply
Ids == 0..(U32_MAX - 1)
Times == 0..MaxTime

----------------------------------------------------------------------------
(* Option<T>: None is the empty sequence, Some(x) the sequence <<x>> *)

None == <<>>
Some(x) == <<x>>
unwrap(o) == o[1]

(* U256 arithmetic (primitive_types::U256): +, * panic on overflow and /   *)
(* panics on a zero divisor; these predicates tell when they panic.        *)
AddOverflows(a, b) == a + b > U256_MAX
MulOverflows(a, b) == b # 0 /\ a > U256_MAX \div b

(* the sum of the amounts of a contributors list: the folds of claim_wish  *)
(* and get_contributors_raised                                             *)
RECURSIVE SumAmounts(_)
SumAmounts(cs) == IF cs = <<>> THEN 0 ELSE cs[1][2] + SumAmounts(Tail(cs))

----------------------------------------------------------------------------
(* State *)

\* next_item_id, items: the storage of the contract; now: the block timestamp;
\* last: the last call (with the value attached to it), its result and the
\* transfers it requested;
\* settled: history of the wishes whose slot was cleared (slot index and id);
\* stack: the calls of claim_wish and split_raised_wish that wait for a transfer
\* to return, the innermost last (used when a message is taken step by step);
\* paid, repaid: history of the transfers that succeeded, as (slot, recipient)
\* paid once and paid more than once
VARIABLES next_item_id, items, now, last, settled, stack, paid, repaid

vars == <<next_item_id, items, now, last, settled, stack, paid, repaid>>

\* StorageVec::get: None beyond the length, else the stored element
StorageGet(its, id) == IF id < Len(its) THEN Some(its[id + 1]) ELSE None

\* StorageVec::set
StorageSet(its, id, v) == [its EXCEPT ![id + 1] = v]

\* a push that recycles the first cleared slot
StoragePushReuse(its, v) ==
    IF \E i \in 1..Len(its) : its[i] = None
    THEN [its EXCEPT ![CHOOSE i \in 1..Len(its) : its[i] = None] = v]
    ELSE Append(its, v)

\* StorageVec::push
StoragePush(its, v) == Append(its, v)

\* the value the contract holds for active wishes
RECURSIVE Held(_)
Held(its) ==
    IF its = <<>> THEN 0
    ELSE (IF its[1] = None THEN 0
          ELSE unwrap(its[1]).raised + SumAmounts(unwrap(its[1]).contributors))
         + Held(Tail(its))

Reply(op, caller, id, value, res, transfers, ret) ==
    last' = [op |-> op, caller |-> caller, id |-> id, value |-> value,
             res |-> res, transfers |-> transfers, ret |-> ret]

\* an error return or a trap: storage is left as it was
Fail(op, caller, id, value, res) ==
    /\ Reply(op, caller, id, value, res, <<>>, None)
    /\ UNCHANGED <<next_item_id, items, now, settled>>

Init ==
    /\ next_item_id = 1
    /\ items = <<>>
    /\ now = 0
    /\ last = [op |-> "new", caller |-> "-", id |-> 0, value |-> 0, res |-> "Ok",
               transfers |-> <<>>, ret |-> None]
    /\ settled = {}
    /\ stack = <<>>
    /\ paid = {}
    /\ repaid = {}

----------------------------------------------------------------------------
(* Helpers of the messages *)

\* add_wishlist_item: ten percent of the target, floored
TenPercent(target) == (target * 10) \div 100

\* an increment that skips an id
NextItemIdSkips(n) == n + 2

\* add_wishlist_item: next_item_id.checked_add(1), when it does not overflow
NextItemId(n) == n + 1

\* the check dropped
AnyValue(value) == FALSE

\* fund_wish: value <= U256::zero()
NoValue(value) == value <= 0

\* add_wishlist_item: the item a successful call stores
NewItem(caller, description, end_date, target, value) ==
    [id |-> next_item_id, description |-> description, owner |-> caller,
     target |-> target, end_date |-> end_date, raised |-> value,
     contributors |-> <<>>]

\* the owner taken for a contributor
IsContributorOrOwner(item, caller) ==
    \/ caller = item.owner
    \/ \E i \in 1..Len(item.contributors) : item.contributors[i][1] = caller

\* fund_wish, split_raised_wish: is the caller in the contributors list
IsContributor(item, caller) ==
    \E i \in 1..Len(item.contributors) : item.contributors[i][1] = caller

\* every fund appended as a new entry
ContributeAppends(cs, caller, value) == Append(cs, <<caller, value>>)

\* fund_wish: the contributors list after a fund by a caller who is not the owner
Contribute(cs, caller, value) ==
    IF \E i \in 1..Len(cs) : cs[i][1] = caller
    THEN [i \in 1..Len(cs) |->
             IF cs[i][1] = caller THEN <<cs[i][1], cs[i][2] + value>> ELSE cs[i]]
    ELSE Append(cs, <<caller, value>>)

\* fund_wish: does an addition of the call overflow
FundOverflows(item, caller, value) ==
    IF caller = item.owner
    THEN AddOverflows(item.raised, value)
    ELSE \E i \in 1..Len(item.contributors) :
            /\ item.contributors[i][1] = caller
            /\ AddOverflows(item.contributors[i][2], value)

\* every fund counted as raised
FundedAllRaised(item, caller, value) ==
    [item EXCEPT !.raised = item.raised + value]

\* a fund after the end date dropped
FundedBeforeEnd(item, caller, value) ==
    IF now >= item.end_date THEN item
    ELSE IF caller = item.owner
    THEN [item EXCEPT !.raised = item.raised + value]
    ELSE [item EXCEPT !.contributors = Contribute(item.contributors, caller, value)]

\* fund_wish: the item after a successful fund
Funded(item, caller, value) ==
    IF caller = item.owner
    THEN [item EXCEPT !.raised = item.raised + value]
    ELSE [item EXCEPT !.contributors = Contribute(item.contributors, caller, value)]

get_contributors_raised(its, id) ==
    LET wishlist == StorageGet(its, id) IN
    IF wishlist = None THEN None
    ELSE IF unwrap(wishlist) # None
         THEN Some(SumAmounts(unwrap(unwrap(wishlist)).contributors))
         ELSE None

\* split_raised_wish: raised plus what the contributors gave
TotalWorth(its, id, item) ==
    LET contributors_raise == get_contributors_raised(its, id) IN
    IF contributors_raise = None THEN item.raised
    ELSE unwrap(contributors_raise) + item.raised

\* split_raised_wish: what is transferred to a contributor who gave bal
Percentage(bal, total_worth) == (bal * 100) \div total_worth

\* split_raised_wish: does the arithmetic of the call panic
SplitPanics(its, id, item) ==
    \/ AddOverflows(SumAmounts(item.contributors), item.raised)
    \/ \E i \in 1..Len(item.contributors) :
          \/ MulOverflows(item.contributors[i][2], 100)
          \/ TotalWorth(its, id, item) = 0

\* split_raised_wish: the transfers of the loop, in the order of the list
SplitTransfers(its, id, item, oks) ==
    [i \in 1..Len(item.contributors) |->
        <<item.contributors[i][1],
          Percentage(item.contributors[i][2], TotalWorth(its, id, item)),
          oks[i]>>]

\* the assertion dropped
EndDateIgnored(time, item) == TRUE

\* claim_wish: assert!(time >= item.end_date)
EndDateReached(time, item) == time >= item.end_date

\* the contributions counted toward the target
TargetRaisedWithContributors(item) ==
    item.raised + SumAmounts(item.contributors) >= item.target

\* claim_wish: item.raised >= item.target
TargetRaised(item) == item.raised >= item.target

\* the contributions left out of the payout
ClaimAmountRaisedOnly(item) == item.raised

\* claim_wish: the amount transferred to the owner
ClaimAmount(item) == item.raised + SumAmounts(item.contributors)

----------------------------------------------------------------------------
(* Messages *)

add_wishlist_item(caller, description, end_date, target, value) ==
    /\ Held(items) + value <= MaxSupply
    /\ IF target <= 0
       THEN Fail("add_wishlist_item", caller, 0, value, "InvalidTarget")
       ELSE IF MulOverflows(target, 10)
       THEN Fail("add_wishlist_item", caller, 0, value, "Panic")
       ELSE IF value < TenPercent(target)
       THEN Fail("add_wishlist_item", caller, 0, value, "InvalidContribution")
       ELSE IF next_item_id + 1 > U32_MAX
       THEN Fail("add_wishlist_item", caller, 0, value, "InvalidContribution")
       ELSE /\ next_item_id' = NextItemId(next_item_id)
            /\ items' = StoragePush(items,
                            Some(NewItem(caller, description, end_date, target, value)))
            /\ Reply("add_wishlist_item", caller, 0, value, "Ok", <<>>, None)
            /\ UNCHANGED <<now, settled>>

fund_wish(caller, id, value) ==
    /\ Held(items) + value <= MaxSupply
    /\ LET wishlist == StorageGet(items, id) IN
       IF NoValue(value)
       THEN Fail("fund_wish", caller, id, value, "InvalidContribution")
       ELSE IF wishlist = None
       THEN Fail("fund_wish", caller, id, value, "WishNotFound")
       ELSE IF unwrap(wishlist) = None
       THEN Fail("fund_wish", caller, id, value, "Panic")
       ELSE LET item == unwrap(unwrap(wishlist)) IN
            IF FundOverflows(item, caller, value)
            THEN Fail("fund_wish", caller, id, value, "Panic")
            ELSE /\ items' = StorageSet(items, id, Some(Funded(item, caller, value)))
                 /\ Reply("fund_wish", caller, id, value, "Ok", <<>>, None)
                 /\ UNCHANGED <<next_item_id, now, settled>>

split_raised_wish(caller, id) ==
    LET wishlist == StorageGet(items, id) IN
    IF wishlist = None
    THEN Fail("split_raised_wish", caller, id, 0, "WishNotFound")
    ELSE IF unwrap(wishlist) = None
    THEN Fail("split_raised_wish", caller, id, 0, "Panic")
    ELSE LET item == unwrap(unwrap(wishlist)) IN
         IF ~IsContributor(item, caller)
         THEN Fail("split_raised_wish", caller, id, 0, "Panic")
         ELSE IF SplitPanics(items, id, item)
         THEN Fail("split_raised_wish", caller, id, 0, "Panic")
         ELSE \E oks \in [1..Len(item.contributors) -> BOOLEAN] :
                 /\ items' = StorageSet(items, id, None)
                 /\ Reply("split_raised_wish", caller, id, 0, "Ok",
                          SplitTransfers(items, id, item, oks), None)
                 /\ settled' = settled \cup {[slot |-> id, id |-> item.id]}
                 /\ UNCHANGED <<next_item_id, now>>

claim_wish(caller, id) ==
    LET wishlist == StorageGet(items, id) IN
    IF wishlist = None
    THEN Fail("claim_wish", caller, id, 0, "WishNotFound")
    ELSE IF unwrap(wishlist) = None
    THEN Fail("claim_wish", caller, id, 0, "Panic")
    ELSE LET item == unwrap(unwrap(wishlist)) IN
         IF item.owner # caller
         THEN Fail("claim_wish", caller, id, 0, "WishNotFound")
         ELSE IF ~EndDateReached(now, item)
         THEN Fail("claim_wish", caller, id, 0, "Panic")
         ELSE IF ~TargetRaised(item)
         THEN Fail("claim_wish", caller, id, 0, "InvalidContribution")
         ELSE IF AddOverflows(item.raised, SumAmounts(item.contributors))
         THEN Fail("claim_wish", caller, id, 0, "Panic")
         ELSE \E ok \in BOOLEAN :
                 /\ items' = IF ok THEN StorageSet(items, id, None) ELSE items
                 /\ Reply("claim_wish", caller, id, 0,
                          IF ok THEN "Ok" ELSE "InvalidContribution",
                          << <<item.owner, ClaimAmount(item), ok>> >>, None)
                 /\ settled' = IF ok THEN settled \cup {[slot |-> id, id |-> item.id]}
                                ELSE settled
                 /\ UNCHANGED <<next_item_id, now>>

get_wishlist_item(id) ==
    LET wishlist == StorageGet(items, id) IN
    /\ IF wishlist = None
       THEN Reply("get_wishlist_item", "-", id, 0, "WishNotFound", <<>>, None)
       ELSE Reply("get_wishlist_item", "-", id, 0, "Ok", <<>>, unwrap(wishlist))
    /\ UNCHANGED <<next_item_id, items, now, settled>>

\* the environment: the block timestamp advances
advance_block(time) ==
    /\ time > now
    /\ now' = time
    /\ Reply("advance_block", "-", 0, 0, "Ok", <<>>, None)
    /\ UNCHANGED <<next_item_id, items, settled>>

\* a call from outside: no call of the contract is waiting
Outside == stack = <<>> /\ UNCHANGED <<stack, paid, repaid>>

AddWishlistItem ==
    /\ Outside
    /\ \E caller \in Accounts, description \in Descriptions, end_date \in EndDates,
          target \in Targets, value \in Values :
           add_wishlist_item(caller, description, end_date, target, value)

FundWish ==
    /\ Outside
    /\ \E caller \in Accounts, id \in Ids, value \in Values : fund_wish(caller, id, value)

SplitRaisedWish ==
    /\ Outside
    /\ \E caller \in Accounts, id \in Ids : split_raised_wish(caller, id)

ClaimWish ==
    /\ Outside
    /\ \E caller \in Accounts, id \in Ids : claim_wish(caller, id)

GetWishlistItem ==
    /\ Outside
    /\ \E id \in Ids : get_wishlist_item(id)

AdvanceBlock ==
    /\ Outside
    /\ \E time \in Times : advance_block(time)

Next ==
    \/ AddWishlistItem
    \/ FundWish
    \/ SplitRaisedWish
    \/ ClaimWish
    \/ GetWishlistItem
    \/ AdvanceBlock

Spec == Init /\ [][Next]_vars

----------------------------------------------------------------------------
(* The messages taken step by step.  claim_wish and split_raised_wish call *)
(* self.env().transfer, a call out of the contract: a call of one of them  *)
(* that passed its checks waits on `stack` while its transfer is in flight *)
(* and goes on when the transfer returns.  A transfer that fails leaves    *)
(* nothing behind of what its recipient did (the recipient's call is       *)
(* reverted), so only a transfer during which the recipient did not call   *)
(* back may fail.                                                          *)

\* claim_wish: the one transfer of the call, <<to, amount>>
ClaimQueue(item) == << <<item.owner, ClaimAmount(item)>> >>

\* split_raised_wish: the transfers of the loop, in the order of the list
SplitQueue(its, id, item) ==
    [i \in 1..Len(item.contributors) |->
        <<item.contributors[i][1],
          Percentage(item.contributors[i][2], TotalWorth(its, id, item))>>]

\* the slot left as it is until the transfers are done
SplitNotYetCleared(its, id) == its

\* split_raised_wish: self.items.set(id, &None) ahead of the loop
SplitCleared(its, id) == StorageSet(its, id, None)

\* a call that waits for the first transfer of its queue
Frame(op, caller, id, item, queue) ==
    [op |-> op, caller |-> caller, id |-> id, item |-> item, queue |-> queue,
     sent |-> <<>>, reentered |-> FALSE]

\* the innermost waiting call, the transfer it waits for and its recipient
Top == stack[Len(stack)]
InFlight == Top.queue[Len(Top.sent) + 1]
Recipient == InFlight[1]

\* history: a transfer to `to` for the wish of slot id returned ok
Pay(id, to, ok) ==
    IF ~ok THEN UNCHANGED <<paid, repaid>>
    ELSE IF <<id, to>> \in paid
    THEN repaid' = repaid \cup {<<id, to>>} /\ UNCHANGED paid
    ELSE paid' = paid \cup {<<id, to>>} /\ UNCHANGED repaid

\* claim_wish up to its transfer; waiting is the stack under the call
claim_wish_call(caller, id, waiting) ==
    LET wishlist == StorageGet(items, id)
        Failed(res) == /\ Fail("claim_wish", caller, id, 0, res)
                       /\ stack' = waiting
                       /\ UNCHANGED <<paid, repaid>>
    IN
    IF wishlist = None
    THEN Failed("WishNotFound")
    ELSE IF unwrap(wishlist) = None
    THEN Failed("Panic")
    ELSE LET item == unwrap(unwrap(wishlist)) IN
         IF item.owner # caller
         THEN Failed("WishNotFound")
         ELSE IF ~EndDateReached(now, item)
         THEN Failed("Panic")
         ELSE IF ~TargetRaised(item)
         THEN Failed("InvalidContribution")
         ELSE IF AddOverflows(item.raised, SumAmounts(item.contributors))
         THEN Failed("Panic")
         ELSE /\ stack' = Append(waiting,
                              Frame("claim_wish", caller, id, item, ClaimQueue(item)))
              /\ Reply("transfer", item.owner, id, 0, "Pending", <<>>, None)
              /\ UNCHANGED <<next_item_id, items, now, settled, paid, repaid>>

\* split_raised_wish up to its first transfer; waiting is the stack under the call
split_raised_wish_call(caller, id, waiting) ==
    LET wishlist == StorageGet(items, id)
        Failed(res) == /\ Fail("split_raised_wish", caller, id, 0, res)
                       /\ stack' = waiting
                       /\ UNCHANGED <<paid, repaid>>
    IN
    IF wishlist = None
    THEN Failed("WishNotFound")
    ELSE IF unwrap(wishlist) = None
    THEN Failed("Panic")
    ELSE LET item == unwrap(unwrap(wishlist)) IN
         IF ~IsContributor(item, caller)
         THEN Failed("Panic")
         ELSE IF SplitPanics(items, id, item)
         THEN Failed("Panic")
         ELSE /\ items' = SplitCleared(items, id)
              /\ settled' = settled \cup {[slot |-> id, id |-> item.id]}
              /\ stack' = Append(waiting,
                              Frame("split_raised_wish", caller, id, item,
                                    SplitQueue(items, id, item)))
              /\ Reply("transfer", item.contributors[1][1], id, 0, "Pending",
                       <<>>, None)
              /\ UNCHANGED <<next_item_id, now, paid, repaid>>

\* the transfer in flight returns and the waiting call goes on
transfer_return(ok) ==
    /\ stack # <<>>
    /\ ~ok => ~Top.reentered
    /\ LET f == Top
           sent == Append(f.sent, <<InFlight[1], InFlight[2], ok>>)
           waiting == SubSeq(stack, 1, Len(stack) - 1)
       IN
       /\ Pay(f.id, InFlight[1], ok)
       /\ IF f.op = "claim_wish"
          THEN /\ items' = IF ok THEN StorageSet(items, f.id, None) ELSE items
               /\ settled' = IF ok
                             THEN settled \cup {[slot |-> f.id, id |-> f.item.id]}
                             ELSE settled
               /\ Reply("claim_wish", f.caller, f.id, 0,
                        IF ok THEN "Ok" ELSE "InvalidContribution", sent, None)
               /\ stack' = waiting
               /\ UNCHANGED <<next_item_id, now>>
          ELSE IF Len(sent) < Len(f.queue)
          THEN /\ stack' = Append(waiting,
                               [f EXCEPT !.sent = sent, !.reentered = FALSE])
               /\ Reply("transfer", f.queue[Len(sent) + 1][1], f.id, 0, "Pending",
                        sent, None)
               /\ UNCHANGED <<next_item_id, items, now, settled>>
          ELSE /\ stack' = waiting
               /\ Reply("split_raised_wish", f.caller, f.id, 0, "Ok", sent, None)
               /\ UNCHANGED <<next_item_id, items, now, settled>>

ClaimWishCall ==
    /\ stack = <<>>
    /\ \E caller \in Accounts, id \in Ids : claim_wish_call(caller, id, stack)

SplitRaisedWishCall ==
    /\ stack = <<>>
    /\ \E caller \in Accounts, id \in Ids : split_raised_wish_call(caller, id, stack)

TransferReturn == \E ok \in BOOLEAN : transfer_return(ok)

NextSteps ==
    \/ AddWishlistItem
    \/ FundWish
    \/ GetWishlistItem
    \/ AdvanceBlock
    \/ ClaimWishCall
    \/ SplitRaisedWishCall
    \/ TransferReturn

\* no call is made while a transfer is in flight
SpecSteps == Init /\ [][NextSteps]_vars

(* The recipient of the transfer in flight calls the contract *)

\* the stack once the recipient of the transfer in flight has called back
Reentered == [stack EXCEPT ![Len(stack)].reentered = TRUE]

\* a message without a transfer, called by the recipient
Inside ==
    /\ stack # <<>>
    /\ stack' = Reentered
    /\ UNCHANGED <<paid, repaid>>

ReenterAddWishlistItem ==
    /\ Inside
    /\ \E description \in Descriptions, end_date \in EndDates,
          target \in Targets, value \in Values :
           add_wishlist_item(Recipient, description, end_date, target, value)

ReenterFundWish ==
    /\ Inside
    /\ \E id \in Ids, value \in Values : fund_wish(Recipient, id, value)

ReenterGetWishlistItem ==
    /\ Inside
    /\ \E id \in Ids : get_wishlist_item(id)

ReenterClaimWish ==
    /\ stack # <<>>
    /\ Len(stack) < MaxDepth
    /\ \E id \in Ids : claim_wish_call(Recipient, id, Reentered)

ReenterSplitRaisedWish ==
    /\ stack # <<>>
    /\ Len(stack) < MaxDepth
    /\ \E id \in Ids : split_raised_wish_call(Recipient, id, Reentered)

NextReentrant ==
    \/ NextSteps
    \/ ReenterAddWishlistItem
    \/ ReenterFundWish
    \/ ReenterGetWishlistItem
    \/ ReenterClaimWish
    \/ ReenterSplitRaisedWish

\* the recipient of a transfer may call the contract while it is in flight
SpecReentrant == Init /\ [][NextReentrant]_vars

----------------------------------------------------------------------------
(* Properties.  An action formula speaks of one step: unprimed variables   *)
(* are the storage before the call, last' is the call and its result.      *)

\* the slot of index id holds a wish
Active(its, id) == id < Len(its) /\ its[id + 1] # None
\* the slot of index id was assigned and holds None
Cleared(its, id) == id < Len(its) /\ its[id + 1] = None
ItemAt(its, id) == unwrap(its[id + 1])
Worth(item) == item.raised + SumAmounts(item.contributors)

RECURSIVE Requested(_)
Requested(ts) == IF ts = <<>> THEN 0 ELSE ts[1][2] + Requested(Tail(ts))

\* the call of the step left the storage as it was and requested no transfer
NoEffect ==
    /\ items' = items
    /\ next_item_id' = next_item_id
    /\ last'.transfers = <<>>

Called(op) == last'.op = op

(* C1: value conservation per wish: what a claim_wish or split_raised_wish *)
(* asks to transfer out for a wish never exceeds what was attached to it   *)
(* (its raised plus the amounts of its contributors), and a settlement     *)
(* pays out exactly that amount.                                           *)
C1_ValueConserved ==
    [][\A id \in Ids :
          (/\ Active(items, id)
           /\ (Called("claim_wish") \/ Called("split_raised_wish"))
           /\ last'.id = id)
          => /\ Requested(last'.transfers) <= Worth(ItemAt(items, id))
             /\ Cleared(items', id)
                  => Requested(last'.transfers) = Worth(ItemAt(items, id))]_vars

(* C2: settled is terminal: a cleared slot stays cleared, no wish stored   *)
(* later takes the slot or the id of a settled wish, and fund_wish,        *)
(* claim_wish and split_raised_wish on a cleared slot leave the storage    *)
(* as it was and request no transfer.                                      *)
C2_SettledIsTerminal ==
    [][/\ \A id \in Ids :
             Cleared(items, id)
             => /\ Cleared(items', id)
                /\ (/\ last'.id = id
                    /\ (Called("fund_wish") \/ Called("claim_wish")
                        \/ Called("split_raised_wish")))
                   => NoEffect /\ last'.res # "Ok"
       /\ \A s \in settled' : \A id \in Ids :
             Active(items', id)
             => /\ id # s.slot
                /\ ItemAt(items', id).id # s.id
       /\ settled \subseteq settled']_vars

\* a wish was created while a slot was cleared
C2_Witness ==
    /\ last.op = "add_wishlist_item"
    /\ last.res = "Ok"
    /\ \E id \in Ids : Cleared(items, id)
    /\ \E id \in Ids : Active(items, id)

(* C3: split_raised_wish clears a slot only when the block timestamp has   *)
(* reached the end date of the wish and the target was missed              *)
(* (raised < target).                                                      *)
C3_SplitGated ==
    [][\A id \in Ids :
          (/\ Active(items, id)
           /\ Called("split_raised_wish")
           /\ last'.id = id
           /\ Cleared(items', id))
          => /\ now >= ItemAt(items, id).end_date
             /\ ItemAt(items, id).raised < ItemAt(items, id).target]_vars

(* C4: claim_wish by the owner of an active wish before the end date       *)
(* panics, whatever raised and target are: the wish is unchanged and no    *)
(* transfer is requested.                                                  *)
C4_ClaimBeforeEndPanics ==
    [][\A id \in Ids :
          (/\ Active(items, id)
           /\ Called("claim_wish")
           /\ last'.id = id
           /\ last'.caller = ItemAt(items, id).owner
           /\ now < ItemAt(items, id).end_date)
          => /\ last'.res = "Panic"
             /\ NoEffect]_vars

\* the owner of a wish that raised its target claimed too early
C4_Witness ==
    /\ last.op = "claim_wish"
    /\ last.res = "Panic"
    /\ Active(items, last.id)
    /\ last.caller = ItemAt(items, last.id).owner
    /\ now < ItemAt(items, last.id).end_date
    /\ ItemAt(items, last.id).raised >= ItemAt(items, last.id).target

(* C5: claim_wish by the owner at or after the end date with               *)
(* raised >= target requests exactly one transfer, of raised plus the sum  *)
(* of the contributors' amounts, to the owner; when the transfer succeeds  *)
(* the call returns Ok and the slot is cleared, when it fails the call     *)
(* returns InvalidContribution and the wish is unchanged.                  *)
C5_ClaimPaysOwner ==
    [][\A id \in Ids :
          (/\ Active(items, id)
           /\ Called("claim_wish")
           /\ last'.id = id
           /\ last'.caller = ItemAt(items, id).owner
           /\ now >= ItemAt(items, id).end_date
           /\ ItemAt(items, id).raised >= ItemAt(items, id).target)
          => LET item == ItemAt(items, id) IN
             /\ Len(last'.transfers) = 1
             /\ last'.transfers[1][1] = item.owner
             /\ last'.transfers[1][2] = item.raised + SumAmounts(item.contributors)
             /\ last'.transfers[1][3]
                  => /\ last'.res = "Ok"
                     /\ items' = [items EXCEPT ![id + 1] = None]
             /\ ~last'.transfers[1][3]
                  => /\ last'.res = "InvalidContribution"
                     /\ items' = items
             /\ next_item_id' = next_item_id]_vars

\* a claim paid the owner the raised amount and a contribution
C5_Witness ==
    /\ last.op = "claim_wish"
    /\ last.res = "Ok"
    /\ Cleared(items, last.id)
    /\ Len(last.transfers) = 1
    /\ last.transfers[1][2] = 2
    /\ [slot |-> last.id, id |-> last.id + 1] \in settled

(* C6: claim_wish by the owner at or after the end date with               *)
(* raised < target returns InvalidContribution, requests no transfer and   *)
(* leaves the wish active and unchanged; the contributors' amounts do not  *)
(* count toward the target.                                                *)
C6_ClaimBelowTarget ==
    [][\A id \in Ids :
          (/\ Active(items, id)
           /\ Called("claim_wish")
           /\ last'.id = id
           /\ last'.caller = ItemAt(items, id).owner
           /\ now >= ItemAt(items, id).end_date
           /\ ItemAt(items, id).raised < ItemAt(items, id).target)
          => /\ last'.res = "InvalidContribution"
             /\ NoEffect
             /\ StorageGet(items', id) = Some(Some(ItemAt(items, id)))]_vars

\* the owner's claim was refused though raised plus contributions reach the target
C6_Witness ==
    /\ last.op = "claim_wish"
    /\ last.res = "InvalidContribution"
    /\ last.transfers = <<>>
    /\ Active(items, last.id)
    /\ last.caller = ItemAt(items, last.id).owner
    /\ now >= ItemAt(items, last.id).end_date
    /\ ItemAt(items, last.id).raised < ItemAt(items, last.id).target
    /\ Worth(ItemAt(items, last.id)) >= ItemAt(items, last.id).target

(* C7: claim_wish on an active wish by a caller who is not its owner       *)
(* returns WishNotFound, the very outcome of claim_wish on an id that      *)
(* holds no wish, with no transfer and the storage unchanged.              *)
C7_NotOwnerAsNotFound ==
    [][\A id \in Ids :
          (/\ Called("claim_wish")
           /\ last'.id = id
           /\ \/ ~Active(items, id)
              \/ last'.caller # ItemAt(items, id).owner)
          => /\ last'.res = "WishNotFound"
             /\ NoEffect]_vars

(* C8: get_wishlist_item fails with WishNotFound for an id never assigned  *)
(* and for an id whose slot was cleared, and returns the wish while it is  *)
(* active; it changes nothing.                                             *)
C8_GetOnlyActive ==
    last.op = "get_wishlist_item"
    => IF Active(items, last.id)
       THEN last.res = "Ok" /\ last.ret = Some(ItemAt(items, last.id))
       ELSE last.res = "WishNotFound"

(* C9: fund_wish with a value above zero, claim_wish and split_raised_wish *)
(* on an id that holds no active wish (never assigned, or cleared) return  *)
(* WishNotFound and leave the storage unchanged.                           *)
C9_NotActiveNotFound ==
    [][\A id \in Ids :
          ~Active(items, id)
          => /\ \A caller \in Accounts, value \in Values \ {0} :
                   fund_wish(caller, id, value)
                   => last'.res = "WishNotFound" /\ NoEffect
             /\ (/\ last'.id = id
                 /\ (Called("claim_wish") \/ Called("split_raised_wish")))
                => last'.res = "WishNotFound" /\ NoEffect]_vars

(* C10: the outcome of add_wishlist_item follows from its inputs: a zero   *)
(* target fails with InvalidTarget; else a value below                     *)
(* floor(target * 10 / 100) fails with InvalidContribution; else           *)
(* next_item_id at the u32 maximum fails with InvalidContribution, all     *)
(* three leaving the storage unchanged; every other call succeeds, appends *)
(* one wish (owner the caller, raised the value, the given target and end  *)
(* date, no contributors) and adds 1 to next_item_id.                      *)
C10_AddOutcome ==
    [][\A caller \in Accounts, description \in Descriptions,
          end_date \in EndDates, target \in Targets, value \in Values :
          add_wishlist_item(caller, description, end_date, target, value)
          => IF target = 0
             THEN last'.res = "InvalidTarget" /\ NoEffect
             ELSE IF value < (target * 10) \div 100
             THEN last'.res = "InvalidContribution" /\ NoEffect
             ELSE IF next_item_id = U32_MAX
             THEN last'.res = "InvalidContribution" /\ NoEffect
             ELSE /\ last'.res = "Ok"
                  /\ next_item_id' = next_item_id + 1
                  /\ Len(items') = Len(items) + 1
                  /\ \A i \in 1..Len(items) : items'[i] = items[i]
                  /\ Active(items', Len(items))
                  /\ LET item == ItemAt(items', Len(items)) IN
                     /\ item.owner = caller
                     /\ item.raised = value
                     /\ item.target = target
                     /\ item.end_date = end_date
                     /\ item.contributors = <<>>]_vars

(* C11: the slot index is the id: every active wish in slot i has id i;    *)
(* the first wish of a fresh contract has id 0 and next_item_id is then 1. *)
C11_SlotIsId ==
    /\ \A id \in Ids : Active(items, id) => ItemAt(items, id).id = id
    /\ Len(items) = 1 => next_item_id = 1

(* C12: next_item_id never decreases and changes only in a successful      *)
(* add_wishlist_item, which adds exactly 1; fund_wish, claim_wish,         *)
(* split_raised_wish, get_wishlist_item and a failed add_wishlist_item     *)
(* leave it as it is, also when they clear a slot.                         *)
C12_NextIdOnlyByAdd ==
    [][/\ next_item_id' >= next_item_id
       /\ next_item_id' # next_item_id
            => /\ Called("add_wishlist_item")
               /\ last'.res = "Ok"
               /\ next_item_id' = next_item_id + 1
       /\ (Called("add_wishlist_item") /\ last'.res = "Ok")
            => next_item_id' = next_item_id + 1]_vars

\* a slot was cleared and the counter still counts it
C12_Witness ==
    /\ last.op \in {"claim_wish", "split_raised_wish"}
    /\ last.res = "Ok"
    /\ Cleared(items, last.id)
    /\ next_item_id = Len(items) + 1

(* C13: fund_wish with no value attached fails with InvalidContribution    *)
(* for every caller and every id (active, cleared or never assigned) and   *)
(* leaves the storage unchanged.                                           *)
C13_FundNothing ==
    [][(Called("fund_wish") /\ last'.value = 0)
       => /\ last'.res = "InvalidContribution"
          /\ NoEffect]_vars

\* a fund of nothing was refused on a cleared slot
C13_Witness ==
    /\ last.op = "fund_wish"
    /\ last.value = 0
    /\ last.res = "InvalidContribution"
    /\ Cleared(items, last.id)

\* the accounts of a contributors list, in its order
Addresses(cs) == [i \in 1..Len(cs) |-> cs[i][1]]

C15_FundFrame ==
    [][\A id \in Ids :
        /\ Active(items', id)
             => ~\E i \in 1..Len(ItemAt(items', id).contributors) :
                    ItemAt(items', id).contributors[i][1] = ItemAt(items', id).owner
        /\ (/\ Active(items, id)
            /\ Called("fund_wish")
            /\ last'.id = id
            /\ last'.res = "Ok")
           => LET old == ItemAt(items, id)
                  new == ItemAt(items', id)
              IN /\ Active(items', id)
                 /\ new.owner = old.owner
                 /\ new.target = old.target
                 /\ new.end_date = old.end_date
                 /\ new.id = old.id
                 /\ new.description = old.description
                 /\ next_item_id' = next_item_id
                 /\ Len(items') = Len(items)
                 /\ \A other \in Ids :
                       (other # id /\ other < Len(items))
                       => items'[other + 1] = items[other + 1]
                 /\ last'.transfers = <<>>
                 /\ IF last'.caller = old.owner
                    THEN /\ new.raised = old.raised + last'.value
                         /\ new.contributors = old.contributors
                    ELSE /\ new.raised = old.raised
                         /\ Len(new.contributors) >= Len(old.contributors)
                         /\ \A i \in 1..Len(old.contributors) :
                               old.contributors[i][1] # last'.caller
                               => new.contributors[i] = old.contributors[i]
                         /\ \A i \in 1..Len(new.contributors) :
                               i > Len(old.contributors)
                               => new.contributors[i][1] = last'.caller]_vars

\* the owner topped up a wish that has a contributor, next to another wish
C15_Witness ==
    /\ last.op = "fund_wish"
    /\ last.res = "Ok"
    /\ Active(items, last.id)
    /\ last.caller = ItemAt(items, last.id).owner
    /\ ItemAt(items, last.id).raised = 1
    /\ Len(ItemAt(items, last.id).contributors) = 1
    /\ \E other \in Ids : other # last.id /\ Active(items, other)

(* C16: fund_wish has no deadline: on an active wish a fund with a value   *)
(* above zero succeeds for every caller at every block timestamp, also at  *)
(* and after the end date, and does its bookkeeping.                       *)
C16_FundAnyTime ==
    [][\A id \in Ids :
          (/\ Active(items, id)
           /\ Called("fund_wish")
           /\ last'.id = id
           /\ last'.value > 0)
          => /\ last'.res = "Ok"
             /\ Active(items', id)
             /\ Worth(ItemAt(items', id)) = Worth(ItemAt(items, id)) + last'.value]_vars

\* a wish was funded at or after its end date
C16_Witness ==
    /\ last.op = "fund_wish"
    /\ last.res = "Ok"
    /\ last.value > 0
    /\ Active(items, last.id)
    /\ now >= ItemAt(items, last.id).end_date
    /\ Worth(ItemAt(items, last.id)) = last.value

(* C17: split_raised_wish on an active wish by an account that is not in   *)
(* its contributors, the owner included, panics: the slot is not cleared,  *)
(* no transfer is requested and the wish is unchanged.                     *)
C17_SplitByStranger ==
    [][\A id \in Ids :
          (/\ Active(items, id)
           /\ Called("split_raised_wish")
           /\ last'.id = id
           /\ ~\E i \in 1..Len(ItemAt(items, id).contributors) :
                  ItemAt(items, id).contributors[i][1] = last'.caller)
          => /\ last'.res = "Panic"
             /\ NoEffect]_vars

\* the owner of a wish that has a contributor tried to split it
C17_Witness ==
    /\ last.op = "split_raised_wish"
    /\ last.res = "Panic"
    /\ Active(items, last.id)
    /\ last.caller = ItemAt(items, last.id).owner
    /\ ItemAt(items, last.id).contributors # <<>>

(* C20: every contributor entry of an active wish has an amount above zero *)
(* and the amount never decreases while the wish is active; so when        *)
(* split_raised_wish passes its contributor check, raised plus the sum of  *)
(* the amounts is above zero and the division of the share does not trap,  *)
(* also for a wish created with raised = 0.                                *)
C20_AmountsPositive ==
    [][\A id \in Ids :
        /\ Active(items', id)
             => \A i \in 1..Len(ItemAt(items', id).contributors) :
                   ItemAt(items', id).contributors[i][2] > 0
        /\ (Active(items, id) /\ Active(items', id))
             => \A i \in 1..Len(ItemAt(items, id).contributors) :
                   /\ i <= Len(ItemAt(items', id).contributors)
                   /\ ItemAt(items', id).contributors[i][1]
                        = ItemAt(items, id).contributors[i][1]
                   /\ ItemAt(items', id).contributors[i][2]
                        >= ItemAt(items, id).contributors[i][2]
        /\ (/\ Active(items, id)
            /\ Called("split_raised_wish")
            /\ last'.id = id
            /\ \E i \in 1..Len(ItemAt(items, id).contributors) :
                  ItemAt(items, id).contributors[i][1] = last'.caller)
           => /\ ItemAt(items, id).raised
                   + SumAmounts(ItemAt(items, id).contributors) > 0
              /\ last'.res = "Ok"]_vars

\* a wish with raised = 0 was split: its one contributor is sent 100
C20_Witness ==
    /\ last.op = "split_raised_wish"
    /\ last.res = "Ok"
    /\ Cleared(items, last.id)
    /\ Len(last.transfers) = 1
    /\ last.transfers[1][2] = 100

C19_PaidOnce == repaid = {}

====
